---- MODULE Spec2Model ----
(***************************************************************************)
(* go-borges: the plain repository handle with its transactional overlay   *)
(* (plain/repository.go), the location registry of the siva library        *)
(* (siva/location_registry_test.go) and the libraries aggregator           *)
(* (libraries/libraries.go).                                               *)
(***************************************************************************)
EXTENDS Integers, Sequences, FiniteSets, TLC

\* ------------------------------------------------------------------ bounds
MaxHandles == 2     \* repository handles (and overlay directories) per run
MaxObjects == 2     \* objects written through handles per run
MaxLookups == 4     \* Library.Location calls per run
MaxCache == 2       \* largest RegistryCache a library is configured with
MaxLibs == 3        \* distinct LibraryIDs offered to the aggregator

\* ------------------------------------------------------- program constants
RWMode == 0
TransactionalRWMode == 1
ReadOnlyMode == 2

Modes == {RWMode, TransactionalRWMode, ReadOnlyMode}

\* The reference every initialised repository holds; git.Open fails without it.
HEAD == 0
Objects == 1..MaxObjects
\* temporalPath "" of a handle that allocated no overlay directory
NoTemp == 0
TempPaths == 1..MaxHandles
RepoIDs == {"r1"}

VARIABLES
    \* ---- plain: the Location and its filesystems
    transactional,  \* l.opts.Transactional
    store,          \* permanent store: repository id -> its objects and references
    tempDirs,       \* directories existing under l.opts.TemporalFilesystem
    temporal,       \* contents of each overlay directory (the temporal storer)
    nextTemp,       \* butil.TempDir never returns the same name twice
    nextObj,        \* every write is a distinct object
    \* ---- plain: the Repository handles returned to callers
    handles,        \* sequence of Repository structs: id, mode, temporalPath
    pc,             \* per handle: "idle", or "commit" while ts.Commit() runs
    status,         \* per handle: what the caller has done with it so far
    written,        \* per handle: the objects the caller wrote through it
    ret,            \* the last call that returned, with its error
    panicked,       \* a panic has aborted the process
    \* ---- siva: the library and its location registry
    configured,     \* the LibraryOptions handed to setupLibrary
    options,        \* lib.options after setupLibrary
    cache,          \* the registry cache, most recently used first
    nextInst,       \* every constructed Location is a new instance
    hist,           \* the Locations returned by Library.Location so far
    txns,           \* the Location instances with an open RW repository handle
    \* ---- libraries: the aggregator
    libs,           \* l.libs: LibraryID -> the Library added under it
    call,           \* the aggregator call in progress, "none" if there is none
    probed,         \* the libraries probed by the call, in order
    expired,        \* ctx.Done() is closed: the deadline of the call has elapsed
    result,         \* what the last call returned, "pending" while it runs
    previous        \* what the call before the last one returned

plainVars == <<transactional, store, tempDirs, temporal, nextTemp, nextObj,
               handles, pc, status, written, ret, panicked>>

regVars == <<configured, options, cache, nextInst, hist, txns>>

libVars == <<libs, call, probed, expired, result, previous>>

vars == <<plainVars, regVars, libVars>>

H == 1..Len(handles)

NoCall == [op |-> "none", err |-> "nil"]
Returned(op, h, err) == [op |-> op, err |-> err]

\* ---------------------------------------------------------- filesystem
\* butil.RemoveAll(fs, path): path and everything below it; the empty path is
\* the root of the temporal filesystem, below which every overlay lives.
RemovedDirs(path) == IF path = NoTemp THEN tempDirs ELSE {path}

RemoveAll(path) ==
    /\ tempDirs' = tempDirs \ RemovedDirs(path)
    /\ temporal' = [p \in TempPaths |->
                        IF p \in RemovedDirs(path) \/ path = NoTemp
                        THEN {} ELSE temporal[p]]

\* butil.RemoveAll(fs, path) fails on an error of the filesystem: there was
\* something to remove and it is still there.
RemoveAllFails(path) ==
    /\ RemovedDirs(path) \cap tempDirs # {}
    /\ UNCHANGED <<tempDirs, temporal>>

\* The errors of butil.RemoveAll.
RemoveErrs == {"nil", "ErrRemove"}

\* A call of butil.RemoveAll has failed: Close or Commit has returned its error,
\* or a handle that is no longer open still has its overlay.
Broken ==
    \/ ret.err = "ErrRemove"
    \/ \E h \in H :
          /\ status[h] # "open"
          /\ handles[h].temporalPath \in tempDirs

\* A process is followed until it panics or the temporal filesystem fails:
\* what a caller does after either is not modelled.
Running == ~panicked /\ ~Broken

\* ------------------------------------------------------ repositoryStorer
\* The error of repositoryStorer for a mode.
StorerErr(mode) ==
    IF mode \in {ReadOnlyMode, RWMode} THEN "nil" ELSE "ErrModeNotSupported"

\* Whether repositoryStorer goes through repositoryTemporalStorer.
UsesTemporalStorer(mode) == mode = RWMode /\ transactional

\* What a storer reads: the transactional storer reads through to the parent.
View(id, tempPath) ==
    store[id] \cup (IF tempPath = NoTemp THEN {} ELSE temporal[tempPath])

\* A storer that never wraps the permanent store: every write goes to it.
StorerWriteParent(h, obj) ==
    /\ store' = [store EXCEPT ![handles[h].id] = @ \cup {obj}]
    /\ UNCHANGED <<temporal, tempDirs>>

\* A storer's write: to the overlay when there is one, else to the permanent store.
StorerWrite(h, obj) ==
    IF UsesTemporalStorer(handles[h].mode)
    THEN /\ temporal' = [temporal EXCEPT ![handles[h].temporalPath] = @ \cup {obj}]
         /\ tempDirs' = tempDirs \cup {handles[h].temporalPath}
         /\ UNCHANGED store
    ELSE /\ store' = [store EXCEPT ![handles[h].id] = @ \cup {obj}]
         /\ UNCHANGED <<temporal, tempDirs>>

NewHandle(id, mode, tempPath) ==
    /\ handles' = Append(handles, [id |-> id, mode |-> mode, temporalPath |-> tempPath])
    /\ pc' = Append(pc, "idle")
    /\ status' = Append(status, "open")
    /\ written' = Append(written, {})

\* openRepository: the storer first (which allocates the overlay), then git.Open.
openRepository(id, mode) ==
    /\ Running
    /\ Len(handles) < MaxHandles
    /\ UsesTemporalStorer(mode) => nextTemp <= MaxHandles
    /\ UNCHANGED <<transactional, store, temporal, nextObj, panicked>>
    /\ IF StorerErr(mode) # "nil"
       THEN /\ ret' = Returned("Get", 0, StorerErr(mode))
            /\ UNCHANGED <<tempDirs, nextTemp, handles, pc, status, written>>
       ELSE LET tp == IF UsesTemporalStorer(mode) THEN nextTemp ELSE NoTemp IN
            /\ tempDirs' = IF tp = NoTemp THEN tempDirs ELSE tempDirs \cup {tp}
            /\ nextTemp' = IF tp = NoTemp THEN nextTemp ELSE nextTemp + 1
            /\ IF HEAD \in View(id, tp)
               THEN /\ NewHandle(id, mode, tp)
                    /\ ret' = Returned("Get", Len(handles) + 1, "nil")
               ELSE /\ ret' = Returned("Get", 0, "ErrRepositoryNotExists")
                    /\ UNCHANGED <<handles, pc, status, written>>

\* initRepository: the storer in RWMode, git.Init and the origin remote, which
\* r.CreateRemote may fail to write.
initRepository(id) ==
    /\ Running
    /\ Len(handles) < MaxHandles
    /\ UsesTemporalStorer(RWMode) => nextTemp <= MaxHandles
    /\ UNCHANGED <<transactional, nextObj, panicked>>
    /\ LET tp == IF UsesTemporalStorer(RWMode) THEN nextTemp ELSE NoTemp IN
       /\ nextTemp' = IF tp = NoTemp THEN nextTemp ELSE nextTemp + 1
       /\ IF HEAD \in View(id, tp)
          THEN /\ ret' = Returned("Init", 0, "ErrRepositoryAlreadyExists")
               /\ tempDirs' = IF tp = NoTemp THEN tempDirs ELSE tempDirs \cup {tp}
               /\ UNCHANGED <<store, temporal, handles, pc, status, written>>
          ELSE /\ IF tp = NoTemp
                  THEN /\ store' = [store EXCEPT ![id] = @ \cup {HEAD}]
                       /\ UNCHANGED <<temporal, tempDirs>>
                  ELSE /\ temporal' = [temporal EXCEPT ![tp] = @ \cup {HEAD}]
                       /\ tempDirs' = tempDirs \cup {tp}
                       /\ UNCHANGED store
               /\ \/ /\ NewHandle(id, RWMode, tp)
                     /\ ret' = Returned("Init", Len(handles) + 1, "nil")
                  \/ /\ ret' = Returned("Init", 0, "ErrCreateRemote")
                     /\ UNCHANGED <<handles, pc, status, written>>

\* A write through the embedded git.Repository of handle h, by a caller that
\* has neither closed nor committed the handle. A read-only storer refuses it.
Write(h) ==
    /\ pc[h] = "idle"
    /\ Running
    /\ status[h] = "open"
    /\ nextObj <= MaxObjects
    /\ UNCHANGED <<transactional, nextTemp, handles, pc, status, panicked>>
    /\ IF handles[h].mode = ReadOnlyMode
       THEN /\ ret' = Returned("Write", h, "ErrReadOnly")
            /\ UNCHANGED <<store, temporal, tempDirs, nextObj, written>>
       ELSE /\ StorerWrite(h, nextObj)
            /\ nextObj' = nextObj + 1
            /\ written' = [written EXCEPT ![h] = @ \cup {nextObj}]
            /\ ret' = Returned("Write", h, "nil")

\* Repository.cleanupTemporal, which returns err.
cleanupTemporal(h, err) ==
    \/ err = "nil" /\ RemoveAll(handles[h].temporalPath)
    \/ err = "ErrRemove" /\ RemoveAllFails(handles[h].temporalPath)

\* A Close that returns nil in every Location and removes nothing.
CloseKeepsOverlay(h) ==
    /\ pc[h] = "idle"
    /\ Running
    /\ status[h] # "closed"
    /\ status' = [status EXCEPT ![h] = IF @ = "open" THEN "closed" ELSE @]
    /\ ret' = Returned("Close", h, "nil")
    /\ UNCHANGED <<transactional, store, tempDirs, temporal, nextTemp, nextObj,
                   handles, pc, written, panicked>>

\* Repository.Close. A handle has one owner: it is not closed while its Commit
\* is running, and it is closed once.
Close(h) ==
    /\ pc[h] = "idle"
    /\ Running
    /\ status[h] # "closed"
    /\ \E err \in RemoveErrs :
          /\ ret' = Returned("Close", h, err)
          /\ IF ~transactional
             THEN err = "nil" /\ UNCHANGED <<tempDirs, temporal>>
             ELSE cleanupTemporal(h, err)
    /\ status' = [status EXCEPT ![h] = IF @ = "open" THEN "closed" ELSE @]
    /\ UNCHANGED <<transactional, store, nextTemp, nextObj, handles, pc, written, panicked>>

\* A Commit that registers its deferred Close before it looks at the Location:
\* the handle is closed although ErrNonTransactional is returned.
CommitNonTransactionalDeferred(h) ==
    /\ ret' = Returned("Commit", h, "ErrNonTransactional")
    /\ status' = [status EXCEPT ![h] = IF @ = "open" THEN "closed" ELSE @]
    /\ UNCHANGED <<tempDirs, temporal, pc, panicked>>

\* Repository.Commit in a Location without transactions: the early return.
CommitNonTransactional(h) ==
    /\ ret' = Returned("Commit", h, "ErrNonTransactional")
    /\ UNCHANGED <<tempDirs, temporal, pc, status, panicked>>

\* Repository.Commit when r.Storer is no transactional.Storage: the deferred
\* CheckClose runs Close and the panic aborts the process.
CommitPanic(h) ==
    /\ \E err \in RemoveErrs : cleanupTemporal(h, err)
    /\ panicked' = TRUE
    /\ ret' = Returned("Commit", h, "panic")
    /\ status' = [status EXCEPT ![h] = IF @ = "open" THEN "closed" ELSE @]
    /\ UNCHANGED pc

\* Repository.Commit up to the call of ts.Commit(), on a handle that is open
\* or the Commit of which has failed.
Commit(h) ==
    /\ pc[h] = "idle"
    /\ Running
    /\ status[h] \in {"open", "failed"}
    /\ UNCHANGED <<transactional, store, nextTemp, nextObj, handles, written>>
    /\ IF ~transactional
       THEN CommitNonTransactional(h)
       ELSE IF ~UsesTemporalStorer(handles[h].mode)
            THEN CommitPanic(h)
            ELSE /\ pc' = [pc EXCEPT ![h] = "commit"]
                 /\ UNCHANGED <<tempDirs, temporal, status, ret, panicked>>

\* ts.Commit() copies the contents of the temporal storer into the permanent
\* one, one object or reference at a time.
tsCommitStep(h) ==
    /\ pc[h] = "commit"
    /\ Running
    /\ \E obj \in temporal[handles[h].temporalPath] \ store[handles[h].id] :
          store' = [store EXCEPT ![handles[h].id] = @ \cup {obj}]
    /\ UNCHANGED <<transactional, tempDirs, temporal, nextTemp, nextObj,
                   handles, pc, status, written, ret, panicked>>

\* A Commit that returns after ts.Commit() without the deferred CheckClose.
CommitReturnKeepsOverlay(h) ==
    /\ pc[h] = "commit"
    /\ Running
    /\ temporal[handles[h].temporalPath] \subseteq store[handles[h].id]
    /\ ret' = Returned("Commit", h, "nil")
    /\ pc' = [pc EXCEPT ![h] = "idle"]
    /\ status' = [status EXCEPT ![h] = IF @ = "open" THEN "committed" ELSE @]
    /\ UNCHANGED <<transactional, store, tempDirs, temporal, nextTemp, nextObj,
                   handles, written, panicked>>

\* ts.Commit() has copied everything and returns nil; the deferred CheckClose
\* closes the handle and Commit returns the error of Close, if any.
CommitReturn(h) ==
    /\ pc[h] = "commit"
    /\ Running
    /\ temporal[handles[h].temporalPath] \subseteq store[handles[h].id]
    /\ \E err \in RemoveErrs :
          /\ ret' = Returned("Commit", h, err)
          /\ cleanupTemporal(h, err)
          /\ status' = [status EXCEPT ![h] =
                            IF @ # "open" THEN @
                            ELSE IF err = "nil" THEN "committed" ELSE "failed"]
    /\ pc' = [pc EXCEPT ![h] = "idle"]
    /\ UNCHANGED <<transactional, store, nextTemp, nextObj, handles, written, panicked>>

\* ts.Commit() returns an error of the storage; the deferred CheckClose
\* closes the handle and Commit returns the error of ts.Commit(), whatever
\* Close returns.
CommitFail(h) ==
    /\ pc[h] = "commit"
    /\ Running
    /\ ret' = Returned("Commit", h, "ErrStorage")
    /\ \E err \in RemoveErrs : cleanupTemporal(h, err)
    /\ pc' = [pc EXCEPT ![h] = "idle"]
    /\ status' = [status EXCEPT ![h] = IF @ = "open" THEN "failed" ELSE @]
    /\ UNCHANGED <<transactional, store, nextTemp, nextObj, handles, written, panicked>>

\* ------------------------------------------------- siva: location registry
LocationIDs == {"a", "b", "c"}

\* The RegistryCache a transactional library is given when it asks for less.
registryCacheSize == 1

\* A library that takes the configured RegistryCache as it is.
setupLibraryVerbatim(opts) == opts

\* setupLibrary / NewLibrary: in a transactional library a RegistryCache below
\* registryCacheSize is raised to it.
setupLibrary(opts) ==
    IF opts.Transactional /\ opts.RegistryCache < registryCacheSize
    THEN [opts EXCEPT !.RegistryCache = registryCacheSize]
    ELSE opts

\* Position of a LocationID in the cache, 0 when it is not cached.
CacheIndex(c, id) ==
    IF \E i \in 1..Len(c) : c[i].id = id
    THEN CHOOSE i \in 1..Len(c) : c[i].id = id
    ELSE 0

Without(c, i) == SubSeq(c, 1, i - 1) \o SubSeq(c, i + 1, Len(c))

\* An eviction that drops the most recently used entries instead.
EvictNewest(c, capacity) ==
    IF Len(c) > capacity THEN SubSeq(c, Len(c) - capacity + 1, Len(c)) ELSE c

\* Eviction: the least recently used entries beyond the capacity go.
Evict(c, capacity) ==
    IF Len(c) > capacity THEN SubSeq(c, 1, capacity) ELSE c

\* The Location a lookup returns: the cached instance, else a new one.
LookupResult(c, id, inst) ==
    IF CacheIndex(c, id) # 0 THEN c[CacheIndex(c, id)] ELSE [id |-> id, inst |-> inst]

\* The cache after a lookup: the entry is the most recently used one.
CacheAfter(c, id, inst, capacity) ==
    IF CacheIndex(c, id) # 0
    THEN <<c[CacheIndex(c, id)]>> \o Without(c, CacheIndex(c, id))
    ELSE Evict(<<[id |-> id, inst |-> inst]>> \o c, capacity)

\* Library.Location(id): LookupOrCreate on the registry cache.
Location(id) ==
    /\ Len(hist) < MaxLookups
    /\ hist' = Append(hist, LookupResult(cache, id, nextInst))
    /\ cache' = CacheAfter(cache, id, nextInst, options.RegistryCache)
    /\ nextInst' = IF CacheIndex(cache, id) # 0 THEN nextInst ELSE nextInst + 1
    /\ UNCHANGED <<configured, options, txns>>

\* Location.Get(id, RWMode) on the Location the last lookup returned: a
\* repository handle is open on that instance.
LocationGet ==
    /\ hist # <<>>
    /\ hist[Len(hist)] \notin txns
    /\ txns' = txns \cup {hist[Len(hist)]}
    /\ UNCHANGED <<configured, options, cache, nextInst, hist>>

\* Close or Commit of the repository handle open on Location instance t.
HandleDone(t) ==
    /\ t \in txns
    /\ txns' = txns \ {t}
    /\ UNCHANGED <<configured, options, cache, nextInst, hist>>

InitRegistry ==
    /\ configured \in [Transactional : BOOLEAN, RegistryCache : 0..MaxCache]
    /\ options = setupLibrary(configured)
    /\ cache = <<>>
    /\ nextInst = 1
    /\ hist = <<>>
    /\ txns = {}

RegistryIdle ==
    /\ configured = [Transactional |-> FALSE, RegistryCache |-> 0]
    /\ options = configured
    /\ cache = <<>>
    /\ nextInst = 1
    /\ hist = <<>>
    /\ txns = {}


\* ------------------------------------------------- libraries: aggregator
LibraryIDs == 1..MaxLibs

\* What a member Library answers for the repository id of the call:
\*   "found"     Get returns the repository, Has returns true
\*   "absent"    Get returns ErrRepositoryNotExists, Has returns false
\*   "notexists" Get and Has both return ErrRepositoryNotExists
\*   "error"     Get and Has both return another error
Answers == {"found", "absent", "notexists", "error"}

Libraries == [id : LibraryIDs, ans : Answers]

\* lib.Get(id, mode) of a member: the error, "nil" with the repository.
LibGetErr(lib) ==
    CASE lib.ans = "found" -> "nil"
      [] lib.ans = "error" -> "ErrOther"
      [] OTHER -> "ErrRepositoryNotExists"

\* lib.Has(id) of a member: the error, "nil" with the boolean.
LibHasErr(lib) ==
    CASE lib.ans = "notexists" -> "ErrRepositoryNotExists"
      [] lib.ans = "error" -> "ErrOther"
      [] OTHER -> "nil"

LibHas(lib) == lib.ans = "found"

Members == DOMAIN libs

Range(seq) == {seq[i] : i \in 1..Len(seq)}

\* The members the range loop of the call in progress has not reached.
Remaining == Members \ Range(probed)

Pending == [op |-> "none", err |-> "pending", from |-> 0]
Result(op, err, from) == [op |-> op, err |-> err, from |-> from]

\* An Add that registers the Library whatever the map holds under its id.
AddReplaces(lib) ==
    /\ call = "none"
    /\ libs' = [i \in Members \cup {lib.id} |->
                    IF i = lib.id THEN lib ELSE libs[i]]
    /\ result' = Result("Add", "nil", 0)
    /\ UNCHANGED <<call, probed, expired>>

\* Libraries.Add
Add(lib) ==
    /\ call = "none"
    /\ IF lib.id \in Members
       THEN /\ result' = Result("Add", "ErrLibraryExists", 0)
            /\ UNCHANGED libs
       ELSE /\ libs' = [i \in Members \cup {lib.id} |->
                            IF i = lib.id THEN lib ELSE libs[i]]
            /\ result' = Result("Add", "nil", 0)
    /\ UNCHANGED <<call, probed, expired>>

\* Libraries.Get and Libraries.Has up to their range loop: the context with
\* the timeout of the call.
Begin(op) ==
    /\ call = "none"
    /\ call' = op
    /\ probed' = <<>>
    /\ expired' = FALSE
    /\ result' = Pending
    /\ UNCHANGED libs

\* The deadline of the call in progress elapses.
DeadlineElapses ==
    /\ call # "none"
    /\ ~expired
    /\ expired' = TRUE
    /\ UNCHANGED <<libs, call, probed, result>>

Return(op, err, from) ==
    /\ call' = "none"
    /\ result' = Result(op, err, from)

\* The probe of a member takes time: the deadline of the call may elapse
\* while it runs, and the probe still runs to its end.
DuringProbe == expired' \in {expired, TRUE}

\* A Get loop that stops at the first error of a member, whatever it is.
GetProbeStopsAtNotExists(i) ==
    /\ probed' = Append(probed, i)
    /\ IF LibGetErr(libs[i]) # "nil"
       THEN Return("Get", LibGetErr(libs[i]), 0)
       ELSE Return("Get", "nil", i)

\* The body of the Get loop after the deadline check: the probe of member i.
GetProbe(i) ==
    /\ probed' = Append(probed, i)
    /\ IF LibGetErr(libs[i]) # "nil"
       THEN IF LibGetErr(libs[i]) = "ErrRepositoryNotExists"
            THEN UNCHANGED <<call, result>>
            ELSE Return("Get", LibGetErr(libs[i]), 0)
       ELSE Return("Get", "nil", i)

\* A Get loop that looks at the deadline after the probe instead of before it.
GetIterChecksAfter(i) ==
    /\ call = "Get"
    /\ i \in Remaining
    /\ DuringProbe
    /\ IF expired'
       THEN /\ probed' = Append(probed, i)
            /\ Return("Get", "DeadlineExceeded", 0)
       ELSE GetProbe(i)
    /\ UNCHANGED libs

\* One iteration of the range loop of Libraries.Get, on any member the loop
\* has not reached: the order of a map range is not fixed.
GetIter(i) ==
    /\ call = "Get"
    /\ i \in Remaining
    /\ IF expired
       THEN /\ Return("Get", "DeadlineExceeded", 0)
            /\ UNCHANGED <<probed, expired>>
       ELSE /\ GetProbe(i)
            /\ DuringProbe
    /\ UNCHANGED libs

\* Libraries.Get after its range loop.
GetEnd ==
    /\ call = "Get"
    /\ Remaining = {}
    /\ Return("Get", "ErrRepositoryNotExists", 0)
    /\ UNCHANGED <<libs, probed, expired>>

\* The body of the Has loop after the deadline check: the probe of member i.
HasProbe(i) ==
    /\ probed' = Append(probed, i)
    /\ IF LibHasErr(libs[i]) # "nil"
       THEN Return("Has", LibHasErr(libs[i]), 0)
       ELSE IF LibHas(libs[i])
            THEN Return("Has", "nil", i)
            ELSE UNCHANGED <<call, result>>

\* One iteration of the range loop of Libraries.Has.
HasIter(i) ==
    /\ call = "Has"
    /\ i \in Remaining
    /\ IF expired
       THEN /\ Return("Has", "DeadlineExceeded", 0)
            /\ UNCHANGED <<probed, expired>>
       ELSE /\ HasProbe(i)
            /\ DuringProbe
    /\ UNCHANGED libs

\* Libraries.Has after its range loop: false and no error.
HasEnd ==
    /\ call = "Has"
    /\ Remaining = {}
    /\ Return("Has", "nil", 0)
    /\ UNCHANGED <<libs, probed, expired>>

\* lib.Location(id) of a member: the error, "nil" with the location. A member
\* that answers "found" holds the location of the call.
LibLocationErr(lib) ==
    CASE lib.ans = "found" -> "nil"
      [] lib.ans = "error" -> "ErrOther"
      [] OTHER -> "ErrLocationNotExists"

\* The body of the Location loop after the deadline check.
LocationProbe(i) ==
    /\ probed' = Append(probed, i)
    /\ IF LibLocationErr(libs[i]) # "nil"
       THEN IF LibLocationErr(libs[i]) = "ErrLocationNotExists"
            THEN UNCHANGED <<call, result>>
            ELSE Return("Location", LibLocationErr(libs[i]), 0)
       ELSE Return("Location", "nil", i)

\* One iteration of the range loop of Libraries.Location.
LocationIter(i) ==
    /\ call = "Location"
    /\ i \in Remaining
    /\ IF expired
       THEN /\ Return("Location", "DeadlineExceeded", 0)
            /\ UNCHANGED <<probed, expired>>
       ELSE /\ LocationProbe(i)
            /\ DuringProbe
    /\ UNCHANGED libs

\* Libraries.Location after its range loop.
LocationEnd ==
    /\ call = "Location"
    /\ Remaining = {}
    /\ Return("Location", "ErrLocationNotExists", 0)
    /\ UNCHANGED <<libs, probed, expired>>

\* The locations a member Library holds, in the order of its own iterator.
\* Two members may hold locations of the same name.
LocationNames(lib) ==
    CASE lib.id % 3 = 1 -> <<"p", "q">>
      [] lib.id % 3 = 2 -> <<"q">>
      [] OTHER -> <<>>

\* lib.Locations() of a member: the error, "nil" with an iterator.
LibLocationsErr(lib) == IF lib.ans = "error" THEN "ErrOther" ELSE "nil"

\* The iterator lib.Locations() returns: the locations of the member, each
\* one a Location of that member.
LibLocations(lib) ==
    [k \in 1..Len(LocationNames(lib)) |->
        [lib |-> lib.id, loc |-> LocationNames(lib)[k]]]

\* A Locations loop that takes no notice of the error of a member and goes
\* on with the next member.
LocationsProbeSkipsFailed(i) ==
    /\ probed' = Append(probed, i)
    /\ UNCHANGED <<call, result>>

\* The body of the Locations loop after the deadline check: the iterator of
\* member i is appended to the slice, which holds the iterators of the members
\* probed so far, in the order of the probes.
LocationsProbe(i) ==
    /\ probed' = Append(probed, i)
    /\ IF LibLocationsErr(libs[i]) # "nil"
       THEN Return("Locations", LibLocationsErr(libs[i]), 0)
       ELSE UNCHANGED <<call, result>>

\* One iteration of the range loop of Libraries.Locations.
LocationsIter(i) ==
    /\ call = "Locations"
    /\ i \in Remaining
    /\ IF expired
       THEN /\ Return("Locations", "DeadlineExceeded", 0)
            /\ UNCHANGED <<probed, expired>>
       ELSE /\ LocationsProbe(i)
            /\ DuringProbe
    /\ UNCHANGED libs

\* Libraries.Locations after its range loop: the merged iterator.
LocationsEnd ==
    /\ call = "Locations"
    /\ Remaining = {}
    /\ Return("Locations", "nil", 0)
    /\ UNCHANGED <<libs, probed, expired>>

\* MergeLocationIterators: the iterator that yields what each iterator of the
\* slice yields, one iterator after the other.
RECURSIVE MergeLocationIterators(_)
MergeLocationIterators(locations) ==
    IF locations = <<>>
    THEN <<>>
    ELSE Head(locations) \o MergeLocationIterators(Tail(locations))

\* What the iterator returned by the last Locations call yields.
Yielded ==
    MergeLocationIterators([k \in 1..Len(probed) |-> LibLocations(libs[probed[k]])])

\* The filter of a FilteredLibraries call on a member: the error, "nil" with
\* the boolean.
FilterErr(lib) == IF lib.ans = "error" THEN "ErrOther" ELSE "nil"

Filter(lib) == lib.ans = "found"

\* The body of the loop of Libraries.libraries after the deadline check.
librariesProbe(i) ==
    /\ probed' = Append(probed, i)
    /\ IF FilterErr(libs[i]) # "nil"
       THEN Return("FilteredLibraries", FilterErr(libs[i]), 0)
       ELSE UNCHANGED <<call, result>>

\* A loop of Libraries.libraries without the select on ctx.Done().
librariesIterUnchecked(i) ==
    /\ call = "FilteredLibraries"
    /\ i \in Remaining
    /\ librariesProbe(i)
    /\ DuringProbe
    /\ UNCHANGED libs

\* One iteration of the range loop of Libraries.libraries.
librariesIter(i) ==
    /\ call = "FilteredLibraries"
    /\ i \in Remaining
    /\ IF expired
       THEN /\ Return("FilteredLibraries", "DeadlineExceeded", 0)
            /\ UNCHANGED <<probed, expired>>
       ELSE /\ librariesProbe(i)
            /\ DuringProbe
    /\ UNCHANGED libs

\* Libraries.libraries after its range loop, and FilteredLibraries after it:
\* the iterator over the members the filter accepted.
librariesEnd ==
    /\ call = "FilteredLibraries"
    /\ Remaining = {}
    /\ Return("FilteredLibraries", "nil", 0)
    /\ UNCHANGED <<libs, probed, expired>>

\* The slice of Libraries.libraries: the members the filter accepted, in the
\* order of the probes.
Filtered == SelectSeq(probed, LAMBDA i : Filter(libs[i]))

\* Libraries.Library
Library(id) ==
    IF id \in Members
    THEN [lib |-> libs[id], err |-> "nil"]
    ELSE [lib |-> [id |-> id, ans |-> "none"], err |-> "ErrLibraryNotExists"]

\* The fan-out operations of the aggregator.
FanOuts == {"Get", "Has", "Location", "Locations", "FilteredLibraries"}

\* libraries.New
InitLibraries ==
    /\ libs = <<>>
    /\ call = "none"
    /\ probed = <<>>
    /\ expired = FALSE
    /\ result = Pending
    /\ previous = Pending

\* ------------------------------------------------------- specifications
InitPlain ==
    /\ transactional \in BOOLEAN
    /\ store \in [RepoIDs -> {{}, {HEAD}}]
    /\ tempDirs = {}
    /\ temporal = [p \in TempPaths |-> {}]
    /\ nextTemp = 1
    /\ nextObj = 1
    /\ handles = <<>>
    /\ pc = <<>>
    /\ status = <<>>
    /\ written = <<>>
    /\ ret = NoCall
    /\ panicked = FALSE

PlainIdle ==
    /\ transactional = FALSE
    /\ store = [id \in RepoIDs |-> {}]
    /\ tempDirs = {}
    /\ temporal = [p \in TempPaths |-> {}]
    /\ nextTemp = 1
    /\ nextObj = 1
    /\ handles = <<>>
    /\ pc = <<>>
    /\ status = <<>>
    /\ written = <<>>
    /\ ret = NoCall
    /\ panicked = FALSE

\* The plain Location and its repository handles.
PlainStart == InitPlain /\ RegistryIdle /\ InitLibraries

PlainOnly == UNCHANGED <<regVars, libVars>>

NextPlain ==
    \/ \E id \in RepoIDs, mode \in Modes : openRepository(id, mode) /\ PlainOnly
    \/ \E id \in RepoIDs : initRepository(id) /\ PlainOnly
    \/ \E h \in H : Write(h) /\ PlainOnly
    \/ \E h \in H : Close(h) /\ PlainOnly
    \/ \E h \in H : Commit(h) /\ PlainOnly
    \/ \E h \in H : tsCommitStep(h) /\ PlainOnly
    \/ \E h \in H : CommitReturn(h) /\ PlainOnly
    \/ \E h \in H : CommitFail(h) /\ PlainOnly

SpecPlain == PlainStart /\ [][NextPlain]_vars

\* The siva library and its location registry.
RegistryStart == PlainIdle /\ InitRegistry /\ InitLibraries

RegistryOnly == UNCHANGED <<plainVars, libVars>>

NextRegistry ==
    \/ \E id \in LocationIDs : Location(id) /\ RegistryOnly
    \/ LocationGet /\ RegistryOnly
    \/ \E t \in txns : HandleDone(t) /\ RegistryOnly

SpecRegistry == RegistryStart /\ [][NextRegistry]_vars

\* The libraries aggregator.
LibrariesStart == PlainIdle /\ RegistryIdle /\ InitLibraries

LibrariesOnly == UNCHANGED <<plainVars, regVars, previous>>

NextLibraries ==
    \/ \E lib \in Libraries : Add(lib) /\ LibrariesOnly
    \/ \E op \in FanOuts : Begin(op) /\ LibrariesOnly
    \/ DeadlineElapses /\ LibrariesOnly
    \/ \E i \in LibraryIDs : GetIter(i) /\ LibrariesOnly
    \/ GetEnd /\ LibrariesOnly
    \/ \E i \in LibraryIDs : HasIter(i) /\ LibrariesOnly
    \/ HasEnd /\ LibrariesOnly
    \/ \E i \in LibraryIDs : LocationIter(i) /\ LibrariesOnly
    \/ LocationEnd /\ LibrariesOnly
    \/ \E i \in LibraryIDs : LocationsIter(i) /\ LibrariesOnly
    \/ LocationsEnd /\ LibrariesOnly
    \/ \E i \in LibraryIDs : librariesIter(i) /\ LibrariesOnly
    \/ librariesEnd /\ LibrariesOnly

SpecLibraries == LibrariesStart /\ [][NextLibraries]_vars

\* The aggregator called again and again on one registered set: a call that
\* begins remembers in previous what the call before it returned.
RunsOnly == UNCHANGED <<plainVars, regVars>>

Again(op) ==
    /\ Begin(op)
    /\ previous' = result

NextRuns ==
    \/ \E lib \in Libraries : Add(lib) /\ LibrariesOnly
    \/ \E op \in {"Get", "Has", "Location"} : Again(op) /\ RunsOnly
    \/ \E i \in LibraryIDs : GetIter(i) /\ LibrariesOnly
    \/ GetEnd /\ LibrariesOnly
    \/ \E i \in LibraryIDs : HasIter(i) /\ LibrariesOnly
    \/ HasEnd /\ LibrariesOnly
    \/ \E i \in LibraryIDs : LocationIter(i) /\ LibrariesOnly
    \/ LocationEnd /\ LibrariesOnly

SpecRuns == LibrariesStart /\ [][NextRuns]_vars

\* ------------------------------------------------------------ claims: plain

\* C2: in a transactional Location, Close on a handle on which Commit was never
\* called leaves the permanent store as it is, and none of the objects written
\* through the handle is in the permanent store.
C2_CloseWithoutCommit ==
    [][\A h \in H :
            (transactional /\ status[h] = "open" /\ Close(h))
            => (store' = store /\ written[h] \cap store'[handles[h].id] = {})]_vars

\* C2 witness: a transactional handle with writes has been closed without Commit.
C2_Witness ==
    /\ transactional
    /\ ret.op = "Close"
    /\ \E h \in H : status[h] = "closed" /\ written[h] # {}

\* What a fresh RW handle on a repository observes when it is opened: its
\* overlay is new and empty, so it reads the permanent store.
FreshView(id) == store[id]

\* C3: in a transactional Location, every object written through a handle whose
\* Commit succeeded is observed by a fresh RW handle, and no object written
\* through a handle closed without Commit is.
C3_RoundTrip ==
    transactional =>
        \A h \in H :
            /\ status[h] = "committed" => written[h] \subseteq FreshView(handles[h].id)
            /\ status[h] = "closed" => written[h] \cap FreshView(handles[h].id) = {}

\* C4: in a transactional Location the permanent store holds, in every state,
\* all of the objects written through a handle or none of them.
C4_AllOrNothing ==
    transactional =>
        \A h \in H :
            \/ written[h] \cap store[handles[h].id] = {}
            \/ written[h] \subseteq store[handles[h].id]

\* C7: in a transactional Location, a Commit that returns on a handle with
\* nothing staged returns ErrEmptyCommit and leaves the permanent store as it is.
C7_EmptyCommit ==
    [][\A h \in H :
            (/\ transactional
             /\ pc[h] = "commit" /\ pc'[h] = "idle"
             /\ status[h] = "open"
             /\ written[h] = {}
             /\ temporal[handles[h].temporalPath] = {})
            => (ret'.err = "ErrEmptyCommit" /\ store' = store)]_vars

\* C8: in a Location without transactions, Commit returns ErrNonTransactional,
\* leaves the permanent store and the temporal filesystem as they are and does
\* not close the handle.
C8_NonTransactional ==
    [][\A h \in H :
            (~transactional /\ Commit(h))
            => (/\ ret'.op = "Commit" /\ ret'.err = "ErrNonTransactional"
                /\ store' = store
                /\ status' = status
                /\ tempDirs' = tempDirs /\ temporal' = temporal)]_vars

\* C8 witness: Commit has returned ErrNonTransactional on a handle that is
\* still open and through which an object was written.
C8_Witness ==
    /\ ~transactional
    /\ ret.op = "Commit" /\ ret.err = "ErrNonTransactional"
    /\ \E h \in H : status[h] = "open" /\ written[h] # {}

\* The overlay of handle h is gone from the temporal filesystem.
Released(h) ==
    /\ handles[h].temporalPath \notin tempDirs
    /\ temporal[handles[h].temporalPath] = {}

Allocated(h) == handles[h].temporalPath # NoTemp

\* A Close of h on the overlay of which Commit had succeeded changes nothing.
NoOpAfterCommit(h) ==
    status[h] = "committed" =>
        /\ ret'.err = "nil"
        /\ tempDirs' = tempDirs /\ temporal' = temporal /\ store' = store

C15_TransactionalRWOpens ==
    [][\A id \in RepoIDs, mode \in Modes :
            openRepository(id, mode)
            => /\ ret'.err # "ErrModeNotSupported"
               /\ (mode = TransactionalRWMode /\ HEAD \in store[id]) =>
                     /\ ret'.err = "nil"
                     /\ Len(handles') = Len(handles) + 1
                     /\ handles'[Len(handles')].temporalPath = nextTemp
                     /\ nextTemp \in tempDirs' \ tempDirs]_vars

\* The steps in which Close or Commit acts on handle h.
ClosesOrCommits(h) ==
    Close(h) \/ Commit(h) \/ tsCommitStep(h) \/ CommitReturn(h) \/ CommitFail(h)

\* C16: in a transactional Location, a Close or a Commit of one handle leaves
\* the temporary directory and the staged writes of every other handle that is
\* still open as they were, whatever the modes of the two handles.
C16_OtherOverlaysUntouched ==
    [][\A h \in H, g \in H :
            (/\ transactional
             /\ h # g
             /\ status[g] = "open"
             /\ Allocated(g)
             /\ ClosesOrCommits(h))
            => /\ temporal'[handles[g].temporalPath] = temporal[handles[g].temporalPath]
               /\ handles[g].temporalPath \in tempDirs
                     => handles[g].temporalPath \in tempDirs']_vars

\* Nothing is staged for a handle that is no longer open.
NoStagingOnceClosed(h) ==
    (Allocated(h) /\ status[h] # "open") =>
        temporal'[handles[h].temporalPath] \subseteq temporal[handles[h].temporalPath]

C20_NoLeakedOverlay ==
    \A p \in tempDirs :
        \E h \in H : handles[h].temporalPath = p /\ status[h] = "open"

\* ----------------------------------------------------- claims: registry

\* C1: in a transactional library, while a repository handle obtained from a
\* Location instance is open, a lookup of that LocationID returns that instance.
C1_SameInstanceWhileOpen ==
    (options.Transactional /\ hist # <<>>) =>
        \A t \in txns :
            hist[Len(hist)].id = t.id => hist[Len(hist)].inst = t.inst

\* The lookup before lookup k that asked for the same LocationID, 0 if none.
PreviousLookup(k) ==
    IF \E j \in 1..(k - 1) : hist[j].id = hist[k].id
    THEN CHOOSE j \in 1..(k - 1) :
            /\ hist[j].id = hist[k].id
            /\ \A i \in (j + 1)..(k - 1) : hist[i].id # hist[k].id
    ELSE 0

\* The LocationIDs looked up strictly between lookups j and k.
Between(j, k) == {hist[i].id : i \in (j + 1)..(k - 1)}

Done(op) == call = "none" /\ result.op = op

\* C9 as stated: Get returns the result of the first probed member that does
\* not answer ErrRepositoryNotExists, probes no member after it, and returns
\* ErrRepositoryNotExists exactly when every member answers it.
C9_GetFirstAnswer ==
    Done("Get") =>
        /\ \A k \in 1..(Len(probed) - 1) :
                LibGetErr(libs[probed[k]]) = "ErrRepositoryNotExists"
        /\ IF probed # <<>> /\ LibGetErr(libs[probed[Len(probed)]]) # "ErrRepositoryNotExists"
           THEN /\ result.err = LibGetErr(libs[probed[Len(probed)]])
                /\ result.from = IF result.err = "nil" THEN probed[Len(probed)] ELSE 0
           ELSE result.err = "ErrRepositoryNotExists"
        /\ result.err = "ErrRepositoryNotExists"
                <=> \A i \in Members : LibGetErr(libs[i]) = "ErrRepositoryNotExists"

\* C9 as amended: the same unless the deadline has elapsed before a probe, when
\* Get returns DeadlineExceeded and every member probed so far has answered
\* ErrRepositoryNotExists.
C9_GetFirstAnswerOrDeadline ==
    Done("Get") =>
        /\ \A k \in 1..(Len(probed) - 1) :
                LibGetErr(libs[probed[k]]) = "ErrRepositoryNotExists"
        /\ IF probed # <<>> /\ LibGetErr(libs[probed[Len(probed)]]) # "ErrRepositoryNotExists"
           THEN /\ result.err = LibGetErr(libs[probed[Len(probed)]])
                /\ result.from = IF result.err = "nil" THEN probed[Len(probed)] ELSE 0
           ELSE IF Remaining # {}
                THEN expired /\ result.err = "DeadlineExceeded"
                ELSE result.err = "ErrRepositoryNotExists"
        /\ result.err = "ErrRepositoryNotExists"
                => \A i \in Members : LibGetErr(libs[i]) = "ErrRepositoryNotExists"
        /\ (\A i \in Members : LibGetErr(libs[i]) = "ErrRepositoryNotExists")
                => result.err \in {"ErrRepositoryNotExists", "DeadlineExceeded"}

\* C9 witness: Get has returned the repository of the third member it probed.
C9_Witness ==
    /\ Done("Get")
    /\ Len(probed) = 3
    /\ result.err = "nil"
    /\ result.from = probed[3]

\* C10: when no member answers an error other than ErrRepositoryNotExists and
\* the deadline has not elapsed, Has returns true if some member holds the
\* repository and false with no error otherwise.
C10_HasSkipsNotExists ==
    (/\ Done("Has")
     /\ ~expired
     /\ \A i \in Members : libs[i].ans # "error")
    => /\ result.err = "nil"
       /\ (result.from # 0) <=> (\E i \in Members : LibHas(libs[i]))

\* C11: in the fan-out loops of Get, Has, Location, Locations and
\* FilteredLibraries no member is probed once the deadline of the call has
\* elapsed: the step the loop takes then probes nothing, and when a member
\* is still to be probed the call returns DeadlineExceeded.
C11_NoProbeAfterDeadline ==
    [][(call \in FanOuts /\ expired) =>
          /\ probed' = probed
          /\ Remaining # {} =>
                /\ call' = "none"
                /\ result' = Result(call, "DeadlineExceeded", 0)]_vars

\* A Locations call that returned DeadlineExceeded after it had probed one
\* member and before it probed another.
C11_Witness ==
    /\ Done("Locations")
    /\ result.err = "DeadlineExceeded"
    /\ probed # <<>>
    /\ Remaining # {}

\* C12: an Add of a Library under a registered id fails with ErrLibraryExists
\* and changes nothing; an Add under a new id registers it; and no step ever
\* changes the Library a registered id maps to, so that Library(id) returns
\* the first Library added under id.
C12_AddKeepsFirst ==
    [][/\ \A lib \in Libraries :
            Add(lib) =>
                IF lib.id \in Members
                THEN result'.err = "ErrLibraryExists" /\ libs' = libs
                ELSE result'.err = "nil" /\ Library(lib.id)' = [lib |-> lib, err |-> "nil"]
       /\ \A id \in Members : Library(id)' = Library(id)]_vars

\* An Add was refused for an id that maps to a Library.
C12_Witness ==
    /\ result = Result("Add", "ErrLibraryExists", 0)
    /\ \E id \in Members : Library(id).err = "nil"

\* The iterator of the last Locations call yields the locations of every
\* registered Library and nothing else, those of one Library in the order of
\* that Library's own iterator and as many times as it yields them.
YieldsUnion ==
    /\ \A k \in 1..Len(Yielded) : Yielded[k].lib \in Members
    /\ \A i \in Members :
          SelectSeq(Yielded, LAMBDA y : y.lib = i) = LibLocations(libs[i])

SomeLocationsFails == \E i \in Members : LibLocationsErr(libs[i]) # "nil"

\* C13 as stated: Locations() yields the multiset union of the locations of
\* the registered Libraries, each Library's in its own order, and when a
\* member's Locations() fails it returns that error and no iterator.
C13_LocationsUnion ==
    Done("Locations") =>
        IF SomeLocationsFails
        THEN result.err = "ErrOther"
        ELSE result.err = "nil" /\ YieldsUnion

\* C13 amended: a Locations() call that returns an iterator has probed every
\* member, none failed, and the iterator yields the multiset union, each
\* Library's locations in its own order; one that returns DeadlineExceeded
\* found the deadline elapsed before a probe; any other error is the error of
\* the member probed last, and without a deadline return a failing member
\* always makes the call fail.
C13_LocationsUnionOrDeadline ==
    Done("Locations") =>
        CASE result.err = "nil" ->
                Remaining = {} /\ ~SomeLocationsFails /\ YieldsUnion
          [] result.err = "DeadlineExceeded" ->
                expired /\ Remaining # {}
          [] OTHER ->
                /\ probed # <<>>
                /\ result.err = LibLocationsErr(libs[probed[Len(probed)]])

\* A Locations call merged the iterators of two members that hold locations.
C13_Witness ==
    /\ Done("Locations")
    /\ result.err = "nil"
    /\ Len(Yielded) >= 3

\* The probe of member i ends the loop of op: a match or an error the loop
\* does not skip.
EndsLoop(op, i) ==
    CASE op = "Get" -> LibGetErr(libs[i]) # "ErrRepositoryNotExists"
      [] op = "Has" -> LibHasErr(libs[i]) # "nil" \/ LibHas(libs[i])
      [] op = "Location" -> LibLocationErr(libs[i]) # "ErrLocationNotExists"
      [] op = "Locations" -> LibLocationsErr(libs[i]) # "nil"
      [] OTHER -> FilterErr(libs[i]) # "nil"

DoneFanOut == call = "none" /\ result.op \in FanOuts

\* C18 as stated: a fan-out call during which the deadline elapsed returns a
\* deadline error, also when it elapsed during the last probe or during a
\* probe that returned a match.
C18_DeadlineAlwaysReported ==
    (DoneFanOut /\ expired /\ probed # <<>>) => result.err = "DeadlineExceeded"

\* C18 amended: a fan-out call returns a deadline error exactly when the
\* deadline has elapsed and the loop comes to the check before a further
\* probe; a deadline that elapses during the probe of the last member, or
\* during a probe that ends the loop, leaves the result of that probe.
C18_DeadlineReportedBeforeNextProbe ==
    DoneFanOut =>
        /\ result.err = "DeadlineExceeded" => expired /\ Remaining # {}
        /\ (expired /\ result.err # "DeadlineExceeded") =>
              \/ Remaining = {}
              \/ probed # <<>> /\ EndsLoop(result.op, probed[Len(probed)])

\* The deadline elapsed during a probe that returned a match, and the call
\* returned the match.
C18_Witness ==
    /\ DoneFanOut
    /\ expired
    /\ result.err = "nil"
    /\ result.from # 0
    /\ Remaining # {}

\* At most one member holds the repository or location of the call.
AtMostOneHolder == Cardinality({i \in Members : libs[i].ans = "found"}) <= 1

\* C19: for one registered set in which at most one member holds what is
\* asked for, two calls of Get, of Has or of Location that both ran within
\* their deadline return the same result, whatever order each iterated in.
C19_OrderIndependent ==
    (/\ call = "none"
     /\ result.op \in {"Get", "Has", "Location"}
     /\ previous.op = result.op
     /\ AtMostOneHolder
     /\ result.err # "DeadlineExceeded"
     /\ previous.err # "DeadlineExceeded")
        => result = previous

====
